---- MODULE Spec2Model ----
(***************************************************************************)
(* qTox chat log text formatter (src/chatlog/textformatter.cpp):           *)
(* highlightURL, isTagIntersection and applyMarkdown.                      *)
(*                                                                         *)
(* A QString is a sequence of one-character strings.  Positions are        *)
(* zero-based, as in Qt: At(s, i) is s.at(i).  A regular expression is a   *)
(* record naming its parts; MatchLen gives the length of its match         *)
(* starting at a position (0: no match there) and GlobalMatch the          *)
(* QRegularExpressionMatchIterator over a subject string.                  *)
(***************************************************************************)
EXTENDS Integers, Sequences, FiniteSets, TLC

VARIABLES
    fn,           \* the function being executed
    pc,           \* "loop": inside the for/while loops, "done": returned
    message,      \* the argument (message / str)
    show,         \* showFormattingSymbols
    result,       \* local QString result
    rule,         \* number of table entries the for loop has started (0: none yet)
    iter,         \* matches the iterator has not yet handed out
    offset,       \* local int offset
    startLength,  \* local int startLength (highlightURL)
    snapshot,     \* the subject string the iterator was created on
    log,          \* matches handed out in the current pass, with what was done
    inserted,     \* every wrapped text put into result so far, in order
    ret           \* the returned value

vars == <<fn, pc, message, show, result, rule, iter, offset, startLength,
          snapshot, log, inserted, ret>>

-----------------------------------------------------------------------------
(* QString primitives *)

At(s, i) == s[i + 1]

Mid(s, pos, n) == SubSeq(s, pos + 1, pos + n)

\* QString::replace(position, n, after)
Replace(s, pos, n, after) ==
    SubSeq(s, 1, pos) \o after \o SubSeq(s, pos + n + 1, Len(s))

\* QString::arg(a): every occurrence of the place marker %1 becomes a
RECURSIVE Arg(_, _)
Arg(tpl, a) ==
    IF tpl = <<>> THEN <<>>
    ELSE (IF Head(tpl) = "%1" THEN a ELSE <<Head(tpl)>>) \o Arg(Tail(tpl), a)

Min(S) == CHOOSE x \in S : \A y \in S : x <= y
Max(S) == CHOOSE x \in S : \A y \in S : x >= y

-----------------------------------------------------------------------------
(* Character classes *)

\* the character U+0060 (grave accent), which a TLA+ string cannot hold
Backtick == "grave"

Lower == {"a","b","c","d","e","f","g","h","i","j","k","l","m",
          "n","o","p","q","r","s","t","u","v","w","x","y","z"}
Upper == {"A","B","C","D","E","F","G","H","I","J","K","L","M",
          "N","O","P","Q","R","S","T","U","V","W","X","Y","Z"}
Digit == {"0","1","2","3","4","5","6","7","8","9"}

\* \s
Space == {" ", "\n", "\t", "\r"}
isSpace(c) == c \in Space

\* [a-zA-Z0-9]
AlNum == Lower \cup Upper \cup Digit

\* \w
Word == AlNum \cup {"_"}

\* literal text at position p
LitAt(s, p, lit) ==
    /\ p >= 0
    /\ p + Len(lit) <= Len(s)
    /\ SubSeq(s, p + 1, p + Len(lit)) = lit

\* length of the longest run of characters of class cls starting at p
RunLen(s, p, cls) ==
    LET end == CHOOSE q \in p..Len(s) :
                  /\ q = Len(s) \/ At(s, q) \notin cls
                  /\ \A r \in p..(q - 1) : At(s, r) \in cls
    IN IF p >= Len(s) THEN 0 ELSE end - p

\* length of the longest run of characters outside class cls starting at p
RunLenNot(s, p, cls) ==
    LET end == CHOOSE q \in p..Len(s) :
                  /\ q = Len(s) \/ At(s, q) \in cls
                  /\ \A r \in p..(q - 1) : At(s, r) \notin cls
    IN IF p >= Len(s) THEN 0 ELSE end - p

\* $ : at the very end, or before a final newline
DollarAt(s, e) == e = Len(s) \/ (e = Len(s) - 1 /\ At(s, e) = "\n")

\* no lookbehind at all
LookbehindStartOrSpace_Any(s, p) == TRUE

\* (?<=^|[\s\n])
LookbehindStartOrSpace(s, p) == p = 0 \/ isSpace(At(s, p - 1))

\* (?=$|[\s\n])
LookaheadEndOrSpace(s, e) == DollarAt(s, e) \/ (e < Len(s) /\ isSpace(At(s, e)))

\* \b
WordBoundary(s, p) ==
    LET before == p > 0 /\ At(s, p - 1) \in Word
        after  == p < Len(s) /\ At(s, p) \in Word
    IN before # after

-----------------------------------------------------------------------------
(* The markdown patterns.  A delimited pattern is                          *)
(*   (?<=^|[\s\n]) open (?!notNext) ([^innerExcl]+?) (?<!notPrev) close    *)
(*   (?=$|[\s\n])                                                          *)

SINGLE_SIGN_PATTERN(sign) ==
    [kind |-> "delimited", open |-> <<sign>>, notNext |-> Space,
     innerExcl |-> {sign, "\n"}, notPrev |-> Space, close |-> <<sign>>]

SINGLE_SLASH_PATTERN ==
    [kind |-> "delimited", open |-> <<"/">>, notNext |-> Space,
     innerExcl |-> {"/", "\n"}, notPrev |-> Space, close |-> <<"/">>]

DOUBLE_SIGN_PATTERN(sign) ==
    [kind |-> "delimited", open |-> <<sign, sign>>, notNext |-> Space,
     innerExcl |-> {"\n"}, notPrev |-> Space, close |-> <<sign, sign>>]

MULTILINE_CODE ==
    [kind |-> "delimited", open |-> <<Backtick, Backtick, Backtick>>, notNext |-> {Backtick},
     innerExcl |-> {}, notPrev |-> {Backtick}, close |-> <<Backtick, Backtick, Backtick>>]

ITALIC == <<"<", "i", ">", "%1", "<", "/", "i", ">">>
BOLD == <<"<", "b", ">", "%1", "<", "/", "b", ">">>
UNDER == <<"<", "u", ">", "%1", "<", "/", "u", ">">>
STRIKE == <<"<", "s", ">", "%1", "<", "/", "s", ">">>
\* the code wrapper without its font element
CODE_NoFont == <<"<", "c", "o", "d", "e", ">", "%1", "<", "/", "c", "o", "d", "e", ">">>

CODE == <<"<", "f", "o", "n", "t", " ", "c", "o", "l", "o", "r", "=", "#",
            "5", "9", "5", "9", "5", "9", ">", "<", "c", "o", "d", "e", ">",
            "%1",
            "<", "/", "c", "o", "d", "e", ">", "<", "/", "f", "o", "n", "t", ">">>

REGEXP_WRAPPER_PAIR(pattern, wrapper) == [first |-> pattern, second |-> wrapper]

\* the table with the double-asterisk rule in the place of the
\* single-asterisk rule, and the other way round
REGEX_TO_WRAPPER_Reordered == <<
    REGEXP_WRAPPER_PAIR(SINGLE_SLASH_PATTERN, ITALIC),
    REGEXP_WRAPPER_PAIR(DOUBLE_SIGN_PATTERN("*"), BOLD),
    REGEXP_WRAPPER_PAIR(SINGLE_SIGN_PATTERN("_"), UNDER),
    REGEXP_WRAPPER_PAIR(SINGLE_SIGN_PATTERN("~"), STRIKE),
    REGEXP_WRAPPER_PAIR(SINGLE_SIGN_PATTERN(Backtick), CODE),
    REGEXP_WRAPPER_PAIR(SINGLE_SIGN_PATTERN("*"), BOLD),
    REGEXP_WRAPPER_PAIR(DOUBLE_SIGN_PATTERN("/"), ITALIC),
    REGEXP_WRAPPER_PAIR(DOUBLE_SIGN_PATTERN("_"), UNDER),
    REGEXP_WRAPPER_PAIR(DOUBLE_SIGN_PATTERN("~"), STRIKE),
    REGEXP_WRAPPER_PAIR(MULTILINE_CODE, CODE) >>

REGEX_TO_WRAPPER == <<
    REGEXP_WRAPPER_PAIR(SINGLE_SLASH_PATTERN, ITALIC),
    REGEXP_WRAPPER_PAIR(SINGLE_SIGN_PATTERN("*"), BOLD),
    REGEXP_WRAPPER_PAIR(SINGLE_SIGN_PATTERN("_"), UNDER),
    REGEXP_WRAPPER_PAIR(SINGLE_SIGN_PATTERN("~"), STRIKE),
    REGEXP_WRAPPER_PAIR(SINGLE_SIGN_PATTERN(Backtick), CODE),
    REGEXP_WRAPPER_PAIR(DOUBLE_SIGN_PATTERN("*"), BOLD),
    REGEXP_WRAPPER_PAIR(DOUBLE_SIGN_PATTERN("/"), ITALIC),
    REGEXP_WRAPPER_PAIR(DOUBLE_SIGN_PATTERN("_"), UNDER),
    REGEXP_WRAPPER_PAIR(DOUBLE_SIGN_PATTERN("~"), STRIKE),
    REGEXP_WRAPPER_PAIR(MULTILINE_CODE, CODE) >>

\* Length of the match of a delimited pattern starting at p, 0 if none.
\* The inner group is lazy: the shortest inner text the rest can follow.
DelimitedLen(pat, s, p) ==
    LET ol == Len(pat.open)
        cl == Len(pat.close)
        InnerOk(k) ==
            /\ \A j \in (p + ol)..(p + ol + k - 1) : At(s, j) \notin pat.innerExcl
            /\ At(s, p + ol + k - 1) \notin pat.notPrev
            /\ LitAt(s, p + ol + k, pat.close)
            /\ LookaheadEndOrSpace(s, p + ol + k + cl)
        ks == {k \in 1..(Len(s) - p - ol - cl) : InnerOk(k)}
    IN IF /\ LookbehindStartOrSpace(s, p)
          /\ LitAt(s, p, pat.open)
          /\ (p + ol < Len(s) => At(s, p + ol) \notin pat.notNext)
          /\ ks # {}
       THEN ol + Min(ks) + cl
       ELSE 0

\* captured(0) and captured(1) of a delimited match of length l at p
DelimitedGroups(pat, s, p, l) ==
    << Mid(s, p, l),
       Mid(s, p + Len(pat.open), l - Len(pat.open) - Len(pat.close)) >>

-----------------------------------------------------------------------------
(* The tag pattern of isTagIntersection: (?<=<)/?[a-zA-Z0-9]+(?=>) *)

TAG_PATTERN == [kind |-> "tag"]

\* [a-zA-Z0-9]+ without the lookahead (?=>)
TagNameLen_NoLookahead(s, p) == RunLen(s, p, AlNum)

\* [a-zA-Z0-9]+(?=>) at p: the quantifier is greedy and gives back
\* characters until a > follows
TagNameLen(s, p) ==
    LET run == RunLen(s, p, AlNum)
        ks  == {k \in 1..run : p + k < Len(s) /\ At(s, p + k) = ">"}
    IN IF ks = {} THEN 0 ELSE Max(ks)

\* /?[a-zA-Z0-9]+(?=>) without the lookbehind (?<=<)
TagLen_NoLookbehind(s, p) ==
    IF p < Len(s) /\ At(s, p) = "/" /\ TagNameLen(s, p + 1) > 0
    THEN 1 + TagNameLen(s, p + 1)
    ELSE TagNameLen(s, p)

\* (?<=<)/?[a-zA-Z0-9]+(?=>) at p: the optional / is taken when a name
\* follows it
TagLen(s, p) ==
    IF p > 0 /\ At(s, p - 1) = "<"
    THEN IF p < Len(s) /\ At(s, p) = "/" /\ TagNameLen(s, p + 1) > 0
         THEN 1 + TagNameLen(s, p + 1)
         ELSE TagNameLen(s, p)
    ELSE 0

-----------------------------------------------------------------------------
(* The URL patterns *)

HREF_WRAPPER == <<"<", "a", " ", "h", "r", "e", "f", "=", "\"", "%1", "\"", ">",
                  "%1", "<", "/", "a", ">">>

\* [\w:/?#\[\]@!$&'{}*+,;.~%=-]
URL_PATH_PATTERN ==
    Word \cup {":", "/", "?", "#", "[", "]", "@", "!", "$", "&", "'", "{", "}",
               "*", "+", ",", ";", ".", "~", "%", "=", "-"}

\* the length of a Tox ID in [a-zA-Z\\d]{76}
ToxIdLen == 76

W_www == <<"w", "w", "w", ".">>
W_http == <<"h", "t", "t", "p", ":", "/", "/">>
W_https == <<"h", "t", "t", "p", "s", ":", "/", "/">>
W_ftp == <<"f", "t", "p", ":", "/", "/">>
W_file == <<"f", "i", "l", "e", ":", "/", "/">>
W_smb == <<"s", "m", "b", ":", "/", "/">>
W_tox == <<"t", "o", "x", ":">>
W_mailto == <<"m", "a", "i", "l", "t", "o", ":">>

\* A character class: the characters of set, or with neg the others
InClass(c, cls) == (c \in cls.set) # cls.neg

\* the class [a-zA-Z\\d] of the raw string literal: letters, backslash, d
ToxIdClass == [neg |-> FALSE, set |-> Lower \cup Upper \cup {"\\", "d"}]

URL_PATTERNS == <<
    \* \b(www\.|((http[s]?)|ftp)://)%1
    [kind |-> "scheme", prefixes |-> <<W_www, W_https, W_http, W_ftp>>,
     body |-> [neg |-> FALSE, set |-> URL_PATH_PATTERN], least |-> 1],
    \* \b(file|smb)://([\S| ]*)
    [kind |-> "scheme", prefixes |-> <<W_file, W_smb>>,
     body |-> [neg |-> TRUE, set |-> Space \ {" "}], least |-> 0],
    \* \btox:[a-zA-Z\\d]{76}
    [kind |-> "counted", prefix |-> W_tox, body |-> ToxIdClass, count |-> ToxIdLen],
    \* \bmailto:\S+@\S+\.\S+
    [kind |-> "parts", prefix |-> W_mailto, seps |-> <<"@", ".">>],
    \* \btox:\S+@\S+
    [kind |-> "parts", prefix |-> W_tox, seps |-> <<"@">>] >>

\* length of the longest run of characters of a class starting at p
ClassRun(s, p, cls) ==
    LET end == CHOOSE q \in p..Len(s) :
                  /\ q = Len(s) \/ ~InClass(At(s, q), cls)
                  /\ \A r \in p..(q - 1) : InClass(At(s, r), cls)
    IN IF p >= Len(s) THEN 0 ELSE end - p

\* \b prefix body{least,} : the first alternative found at p, then the
\* greedy run of body characters
SchemeLen(pat, s, p) ==
    LET found == {i \in 1..Len(pat.prefixes) : LitAt(s, p, pat.prefixes[i])}
        pre   == pat.prefixes[Min(found)]
        run   == ClassRun(s, p + Len(pre), pat.body)
    IN IF WordBoundary(s, p) /\ found # {} /\ run >= pat.least
       THEN Len(pre) + run
       ELSE 0

\* \b prefix body{count}
CountedLen(pat, s, p) ==
    IF /\ WordBoundary(s, p)
       /\ LitAt(s, p, pat.prefix)
       /\ ClassRun(s, p + Len(pat.prefix), pat.body) >= pat.count
    THEN Len(pat.prefix) + pat.count
    ELSE 0

\* \S+ sep \S+ sep ... \S+ can be laid over s[from, to), a run of \S
RECURSIVE SplitOk(_, _, _, _)
SplitOk(s, from, to, seps) ==
    IF seps = <<>> THEN to - from >= 1
    ELSE \E j \in (from + 1)..(to - 1) :
            At(s, j) = Head(seps) /\ SplitOk(s, j + 1, to, Tail(seps))

\* \b prefix \S+ sep \S+ ... : every \S+ is greedy and the last one has
\* nothing after it, so a match ends where the run of \S ends
PartsLen(pat, s, p) ==
    LET from == p + Len(pat.prefix)
        run  == RunLenNot(s, from, Space)
    IN IF /\ WordBoundary(s, p)
          /\ LitAt(s, p, pat.prefix)
          /\ SplitOk(s, from, from + run, pat.seps)
       THEN Len(pat.prefix) + run
       ELSE 0

-----------------------------------------------------------------------------
(* Matching *)

MatchLen(pat, s, p) ==
    CASE pat.kind = "delimited" -> DelimitedLen(pat, s, p)
      [] pat.kind = "tag"       -> TagLen(s, p)
      [] pat.kind = "scheme"    -> SchemeLen(pat, s, p)
      [] pat.kind = "counted"   -> CountedLen(pat, s, p)
      [] pat.kind = "parts"     -> PartsLen(pat, s, p)

Groups(pat, s, p, l) ==
    CASE pat.kind = "delimited" -> DelimitedGroups(pat, s, p, l)
      [] OTHER                  -> << Mid(s, p, l) >>

\* QRegularExpression::globalMatch(subject): the matches from left to
\* right, each search starting where the previous match ended
RECURSIVE GlobalMatchFrom(_, _, _)
GlobalMatchFrom(pat, s, from) ==
    LET starts == {p \in from..(Len(s) - 1) : MatchLen(pat, s, p) > 0}
        p == Min(starts)
        l == MatchLen(pat, s, p)
    IN IF starts = {} THEN <<>>
       ELSE << [capturedStart |-> p, capturedLength |-> l,
                groups |-> Groups(pat, s, p, l)] >>
            \o GlobalMatchFrom(pat, s, p + l)

GlobalMatch(pat, s) == GlobalMatchFrom(pat, s, 0)

\* QRegularExpressionMatch::captured(nth)
Captured(match, nth) == match.groups[nth + 1]

-----------------------------------------------------------------------------
(* isTagIntersection *)

RECURSIVE TagCount(_, _, _)
TagCount(it, openingTagCount, closingTagCount) ==
    IF it = <<>> THEN <<openingTagCount, closingTagCount>>
    ELSE IF At(Captured(Head(it), 0), 0) = "/"
         THEN TagCount(Tail(it), openingTagCount, closingTagCount + 1)
         ELSE TagCount(Tail(it), openingTagCount + 1, closingTagCount)

isTagIntersection(str) ==
    LET counts == TagCount(GlobalMatch(TAG_PATTERN, str), 0, 0)
    IN counts[1] # counts[2]

-----------------------------------------------------------------------------
(* Input strings *)

\* bounds of the input families
MaxSpans == 2
MaxUrlParts == 3
MaxTagLen == 5

\* every concatenation of at most n of the words
RECURSIVE Joins(_, _)
Joins(words, n) ==
    IF n = 0 THEN {<<>>}
    ELSE LET shorter == Joins(words, n - 1)
         IN shorter \cup {w \o j : w \in words, j \in shorter}

\* at most n of the words, with sep between neighbours
RECURSIVE JoinsSep(_, _, _)
JoinsSep(words, sep, n) ==
    IF n = 0 THEN {<<>>}
    ELSE IF n = 1 THEN {<<>>} \cup words
    ELSE LET shorter == JoinsSep(words, sep, n - 1)
         IN shorter \cup {w \o sep \o j : w \in words, j \in shorter \ {<<>>}}

\* n times the character c
RECURSIVE Rep(_, _)
Rep(c, n) == IF n = 0 THEN <<>> ELSE <<c>> \o Rep(c, n - 1)

Span(delim, body) == delim \o body \o delim

Delims == {REGEX_TO_WRAPPER[i].first.open : i \in 1..Len(REGEX_TO_WRAPPER)}

\* the examples of the documentation
Ex_bold == <<"*", "b", "o", "l", "d", "*">>
Ex_word == <<"*", "w", "o", "r", "d", "*">>
Ex_word2 == <<"*", "*", "w", "o", "r", "d", "*", "*">>
Ex_it_u == <<"/", "i", "t", "/", " ", "a", "n", "d", " ", "_", "u", "_">>
Ex_a_b_c == <<"*", "a", " ", "<", "b", " ", "c", "*">>
Ex_a_tag_c == <<"*", "a", " ", "<", "b", ">", " ", "c", "*">>
Ex_inside == <<"a", "*", "b", "o", "l", "d", "*", "b">>
Ex_fence == Span(<<Backtick, Backtick, Backtick>>, <<"a", "\n", "b">>)

MdExamples == {Ex_bold, Ex_word, Ex_word2, Ex_it_u, Ex_a_b_c, Ex_a_tag_c,
               Ex_inside, Ex_fence}

\* one delimited span between two neighbours
MdBodies == { <<"a">>, <<" ", "a">>, <<"a", " ">>, <<"a", " ", "b">>,
              <<"a", "\n", "b">> }
MdEdges == { <<>>, <<" ">>, <<"\n">>, <<"a">> }
MdContext ==
    {pre \o Span(d, body) \o post :
        pre \in MdEdges, d \in Delims, body \in MdBodies, post \in MdEdges}

\* several spans in a row, some of them holding a tag
MdSpans ==
    {Span(d, body) : d \in {<<"*">>, <<"/">>, <<"*", "*">>},
                     body \in { <<"a">>, <<"<", "b", ">">>, <<"<", "/", "b", ">">>,
                                <<"a", " ", "b">> }}
    \cup {<<"a">>}
MdRows == JoinsSep(MdSpans, <<" ">>, MaxSpans)

\* a span inside a span, two spans inside a span, and two crossing spans
MdNested ==
    {Span(o, <<"a", " ">> \o Span(i, <<"c">>) \o <<" ", "b">>) :
        o \in Delims, i \in Delims}
    \cup
    {Span(o, Span(i, <<"c">>) \o <<" ">> \o Span(j, <<"d">>)) :
        o \in Delims, i \in {<<"*">>, <<"/">>, <<Backtick>>},
        j \in {<<"*">>, <<"_">>, <<Backtick>>}}
    \cup
    {o \o <<"a", " ">> \o i \o <<"b">> \o o \o <<" ", "c">> \o i :
        o \in Delims, i \in Delims}

MdInputs == MdExamples \cup MdContext \cup MdRows \cup MdNested

\* highlightURL: words in a row, each scheme with a body, and Tox IDs
UrlWords == { W_www \o <<"a">>, W_https, W_file, W_tox, W_mailto,
              <<"a", "@", "b">>, <<".", "c">>, <<" ">>, <<"a">> }
UrlRows == Joins(UrlWords, MaxUrlParts)

UrlSchemes ==
    {pre \o scheme \o body :
        pre \in {<<>>, <<" ">>, <<"a">>, <<"_">>},
        scheme \in {W_www, W_http, W_https, W_ftp, W_file, W_smb, W_tox, W_mailto},
        body \in { <<>>, <<"a">>, <<"a", " ", "b">>, <<"a", "\n", "b">>,
                   <<"a", "\"", "b">>, <<"a", "@", "b", ".", "c">> }}

ToxIds ==
    {Rep(c, n - 1) \o <<d>> :
        c \in {"a", "7"}, d \in {"Z", "7", "d"},
        n \in {ToxIdLen - 1, ToxIdLen, ToxIdLen + 1}}
UrlToxIds ==
    {pre \o W_tox \o id \o post :
        pre \in {<<>>, <<" ">>, <<"a">>}, id \in ToxIds,
        post \in {<<>>, <<" ">>, <<"@", "b">>}}

UrlInputs == UrlRows \cup UrlSchemes \cup UrlToxIds

\* isTagIntersection: every short string of tag characters, and the wrappers
TagAlphabet == {"<", ">", "/", "b", "1", " "}
TagInputs ==
    Joins({<<c>> : c \in TagAlphabet}, MaxTagLen)
    \cup {Arg(REGEX_TO_WRAPPER[i].second, <<"a">>) : i \in 1..Len(REGEX_TO_WRAPPER)}
    \cup { <<"<", "/", "b", ">", "<", "i", ">">>, <<"<", "b", " ", "c", ">">>,
           <<"<", "b", "1", ">", "<", "/", "/", "b", ">">>,
           <<"<", "b", ">", "a", "<", "i", ">", "<", "/", "b", ">">> }

-----------------------------------------------------------------------------
(* applyMarkdown *)

NumRules == Len(REGEX_TO_WRAPPER)

\* match.captured(showFormattingSymbols)
MdCaptured_Swapped(match, showFormattingSymbols) ==
    match.groups[IF showFormattingSymbols THEN 2 ELSE 1]

\* match.captured(!showFormattingSymbols)
MdCaptured(match, showFormattingSymbols) ==
    Captured(match, IF showFormattingSymbols THEN 0 ELSE 1)

\* the offset grows by the whole wrapper, the replaced span forgotten
MdOffset_NoLength(off, wrappedText, length) == off + Len(wrappedText)

\* offset += wrappedText.length() - length
MdOffset(off, wrappedText, length) == off + Len(wrappedText) - length

InitMd ==
    /\ fn = "applyMarkdown"
    /\ pc = "loop"
    /\ message \in MdInputs
    /\ show \in BOOLEAN
    /\ result = message
    /\ rule = 0
    /\ iter = <<>>
    /\ offset = 0
    /\ startLength = 0
    /\ snapshot = message
    /\ log = <<>>
    /\ inserted = <<>>
    /\ ret = <<>>

\* for (pair : REGEX_TO_WRAPPER) { iter = pair.first.globalMatch(result); offset = 0;
MdFor ==
    /\ fn = "applyMarkdown" /\ pc = "loop"
    /\ iter = <<>>
    /\ rule < NumRules
    /\ rule' = rule + 1
    /\ iter' = GlobalMatch(REGEX_TO_WRAPPER[rule + 1].first, result)
    /\ offset' = 0
    /\ snapshot' = result
    /\ log' = <<>>
    /\ UNCHANGED <<fn, pc, message, show, result, startLength, inserted, ret>>

\* if (isTagIntersection(captured)) continue;
MdSkip ==
    /\ fn = "applyMarkdown" /\ pc = "loop"
    /\ iter # <<>>
    /\ LET match == Head(iter)
           captured == MdCaptured(match, show)
       IN /\ isTagIntersection(captured)
          /\ log' = Append(log, [match |-> match, captured |-> captured,
                                 accepted |-> FALSE, wrapped |-> <<>>])
    /\ iter' = Tail(iter)
    /\ UNCHANGED <<fn, pc, message, show, result, rule, offset, startLength,
                   snapshot, inserted, ret>>

\* result.replace(startPos, length, wrappedText); offset += ...
MdReplace ==
    /\ fn = "applyMarkdown" /\ pc = "loop"
    /\ iter # <<>>
    /\ LET match == Head(iter)
           captured == MdCaptured(match, show)
           length == match.capturedLength
           wrappedText == Arg(REGEX_TO_WRAPPER[rule].second, captured)
           startPos == match.capturedStart + offset
       IN /\ ~isTagIntersection(captured)
          /\ result' = Replace(result, startPos, length, wrappedText)
          /\ offset' = MdOffset(offset, wrappedText, length)
          /\ log' = Append(log, [match |-> match, captured |-> captured,
                                 accepted |-> TRUE, wrapped |-> wrappedText])
          /\ inserted' = Append(inserted, wrappedText)
    /\ iter' = Tail(iter)
    /\ UNCHANGED <<fn, pc, message, show, rule, startLength, snapshot, ret>>

\* return result;
MdReturn ==
    /\ fn = "applyMarkdown" /\ pc = "loop"
    /\ iter = <<>>
    /\ rule = NumRules
    /\ pc' = "done"
    /\ ret' = result
    /\ UNCHANGED <<fn, message, show, result, rule, iter, offset, startLength,
                   snapshot, log, inserted>>

NextMd == MdFor \/ MdSkip \/ MdReplace \/ MdReturn

SpecMd == InitMd /\ [][NextMd]_vars

-----------------------------------------------------------------------------
(* highlightURL *)

NumUrlPatterns == Len(URL_PATTERNS)

\* the offset is never brought up to date
UrlOffset_Stale(res, startLen) == 0

\* offset = result.length() - startLength
UrlOffset(res, startLen) == Len(res) - startLen

InitUrl ==
    /\ fn = "highlightURL"
    /\ pc = "loop"
    /\ message \in UrlInputs
    /\ show = FALSE
    /\ result = message
    /\ rule = 0
    /\ iter = <<>>
    /\ offset = 0
    /\ startLength = 0
    /\ snapshot = message
    /\ log = <<>>
    /\ inserted = <<>>
    /\ ret = <<>>

\* for (exp : URL_PATTERNS) { startLength = result.length(); offset = 0;
\*                            iter = exp.globalMatch(result);
UrlFor ==
    /\ fn = "highlightURL" /\ pc = "loop"
    /\ iter = <<>>
    /\ rule < NumUrlPatterns
    /\ rule' = rule + 1
    /\ startLength' = Len(result)
    /\ offset' = 0
    /\ iter' = GlobalMatch(URL_PATTERNS[rule + 1], result)
    /\ snapshot' = result
    /\ log' = <<>>
    /\ UNCHANGED <<fn, pc, message, show, result, inserted, ret>>

\* the body of the while loop
UrlReplace ==
    /\ fn = "highlightURL" /\ pc = "loop"
    /\ iter # <<>>
    /\ LET match == Head(iter)
           startPos == match.capturedStart + offset
           length == match.capturedLength
           wrappedURL == Arg(HREF_WRAPPER, Captured(match, 0))
           replaced == Replace(result, startPos, length, wrappedURL)
       IN /\ result' = replaced
          /\ offset' = UrlOffset(replaced, startLength)
          /\ log' = Append(log, [match |-> match, captured |-> Captured(match, 0),
                                 accepted |-> TRUE, wrapped |-> wrappedURL,
                                 offset |-> offset])
          /\ inserted' = Append(inserted, wrappedURL)
    /\ iter' = Tail(iter)
    /\ UNCHANGED <<fn, pc, message, show, rule, startLength, snapshot, ret>>

\* return result;
UrlReturn ==
    /\ fn = "highlightURL" /\ pc = "loop"
    /\ iter = <<>>
    /\ rule = NumUrlPatterns
    /\ pc' = "done"
    /\ ret' = result
    /\ UNCHANGED <<fn, message, show, result, rule, iter, offset, startLength,
                   snapshot, log, inserted>>

NextUrl == UrlFor \/ UrlReplace \/ UrlReturn

SpecUrl == InitUrl /\ [][NextUrl]_vars

-----------------------------------------------------------------------------
(* isTagIntersection called on its own *)

InitTag ==
    /\ fn = "isTagIntersection"
    /\ pc = "loop"
    /\ message \in TagInputs
    /\ show = FALSE
    /\ result = <<>>
    /\ rule = 0
    /\ iter = <<>>
    /\ offset = 0
    /\ startLength = 0
    /\ snapshot = message
    /\ log = <<>>
    /\ inserted = <<>>
    /\ ret = FALSE

TagCall ==
    /\ fn = "isTagIntersection" /\ pc = "loop"
    /\ pc' = "done"
    /\ ret' = isTagIntersection(message)
    /\ UNCHANGED <<fn, message, show, result, rule, iter, offset, startLength,
                   snapshot, log, inserted>>

NextTag == TagCall

SpecTag == InitTag /\ [][NextTag]_vars

-----------------------------------------------------------------------------
(* Vocabulary of the properties *)

\* sub occurs in s
Contains(s, sub) == \E p \in 0..(Len(s) - Len(sub)) : LitAt(s, p, sub)

\* the positions where sub ends in the first q characters of s
EndsIn(s, sub, q) == {e \in Len(sub)..q : LitAt(s, e - Len(sub), sub)}

\* the snapshot with every accepted match of entries replaced by its wrapped
\* text, built from left to right from position pos
RECURSIVE Rebuilt(_, _, _)
Rebuilt(snap, entries, pos) ==
    IF entries = <<>> THEN SubSeq(snap, pos + 1, Len(snap))
    ELSE LET e     == Head(entries)
             start == e.match.capturedStart
             len   == e.match.capturedLength
         IN SubSeq(snap, pos + 1, start)
            \o (IF e.accepted THEN e.wrapped ELSE Mid(snap, start, len))
            \o Rebuilt(snap, Tail(entries), start + len)

\* the sum of (wrapper length - matched length) over the accepted entries
RECURSIVE Growth(_)
Growth(entries) ==
    IF entries = <<>> THEN 0
    ELSE (IF Head(entries).accepted
          THEN Len(Head(entries).wrapped) - Head(entries).match.capturedLength
          ELSE 0)
         + Growth(Tail(entries))

\* the matches of a pass lie one after the other in the snapshot
InOrder(entries, snap) ==
    /\ \A i \in 1..Len(entries) :
          /\ entries[i].match.capturedStart >= 0
          /\ entries[i].match.capturedLength > 0
          /\ entries[i].match.capturedStart + entries[i].match.capturedLength <= Len(snap)
    /\ \A i \in 1..(Len(entries) - 1) :
          entries[i].match.capturedStart + entries[i].match.capturedLength
             <= entries[i + 1].match.capturedStart

\* tag-name tokens: a name of letters/digits, or / and such a name, written
\* directly between < and >
IsName(s) == s # <<>> /\ \A i \in 1..Len(s) : s[i] \in AlNum
Tokens(s) ==
    {t \in (1..Len(s)) \X (1..Len(s)) :
        /\ t[1] < t[2]
        /\ t[2] < Len(s)
        /\ At(s, t[1] - 1) = "<"
        /\ At(s, t[2]) = ">"
        /\ \/ IsName(Mid(s, t[1], t[2] - t[1]))
           \/ At(s, t[1]) = "/" /\ IsName(Mid(s, t[1] + 1, t[2] - t[1] - 1))}
ClosingTokens(s) == {t \in Tokens(s) : At(s, t[1]) = "/"}
OpeningTokens(s) == Tokens(s) \ ClosingTokens(s)
Unbalanced(s) == Cardinality(OpeningTokens(s)) # Cardinality(ClosingTokens(s))

TagOpen(name) == <<"<">> \o name \o <<">">>
TagClose(name) == <<"<", "/">> \o name \o <<">">>
Tagged(name, s) == TagOpen(name) \o s \o TagClose(name)
FontOpen == <<"<", "f", "o", "n", "t", " ", "c", "o", "l", "o", "r", "=", "#",
              "5", "9", "5", "9", "5", "9", ">">>
CodeName == <<"c", "o", "d", "e">>
Coded(s) == FontOpen \o Tagged(CodeName, s) \o TagClose(<<"f", "o", "n", "t">>)
Href(url) ==
    <<"<", "a", " ", "h", "r", "e", "f", "=", "\"">> \o url \o <<"\"", ">">>
    \o url \o <<"<", "/", "a", ">">>

\* the rule table as documented: delimiter and wrapper of the k-th rule
RuleDelim(k) ==
    CASE k = 1 -> <<"/">>
      [] k = 2 -> <<"*">>
      [] k = 3 -> <<"_">>
      [] k = 4 -> <<"~">>
      [] k = 5 -> <<Backtick>>
      [] k = 6 -> <<"*", "*">>
      [] k = 7 -> <<"/", "/">>
      [] k = 8 -> <<"_", "_">>
      [] k = 9 -> <<"~", "~">>
      [] k = 10 -> <<Backtick, Backtick, Backtick>>
RuleWrap(k, s) ==
    CASE k \in {1, 7} -> Tagged(<<"i">>, s)
      [] k \in {2, 6} -> Tagged(<<"b">>, s)
      [] k \in {3, 8} -> Tagged(<<"u">>, s)
      [] k \in {4, 9} -> Tagged(<<"s">>, s)
      [] k \in {5, 10} -> Coded(s)

InMd == fn = "applyMarkdown"
InUrl == fn = "highlightURL"
InTag == fn = "isTagIntersection"
PassOver == pc = "loop" /\ rule >= 1 /\ iter = <<>>

DelimChars == {"/", "*", "_", "~", Backtick}

-----------------------------------------------------------------------------
(* C1: in every pass of applyMarkdown the string is the snapshot the       *)
(* matches were found in, with each accepted match handed out so far       *)
(* replaced by its wrapper and every rejected match and every other        *)
(* character left as it was, in order; the offset is the growth of the     *)
(* accepted matches only; a pass without a match leaves the string as it   *)
(* was, and a message without a delimiter character is returned unchanged. *)
C1_PassRewrite ==
    InMd /\ rule >= 1 =>
        /\ InOrder(log \o [i \in 1..Len(iter) |->
                              [match |-> iter[i], accepted |-> FALSE]], snapshot)
        /\ result = Rebuilt(snapshot, log, 0)
        /\ offset = Growth(log)
        /\ \A i \in 1..Len(log) :
              /\ log[i].accepted = ~Unbalanced(log[i].captured)
              /\ log[i].accepted =>
                    log[i].wrapped = RuleWrap(rule, log[i].captured)
        /\ (log = <<>> /\ iter = <<>> => result = snapshot)
        /\ (pc = "done" /\ (\A i \in 1..Len(message) : message[i] \notin DelimChars)
               => ret = message)

\* a pass that rejected one match and accepted a later one is over
C1_Witness ==
    /\ InMd /\ PassOver
    /\ \E i, j \in 1..Len(log) : i < j /\ ~log[i].accepted /\ log[j].accepted

-----------------------------------------------------------------------------
(* C2: in every pass of highlightURL the offset used for a match is the    *)
(* sum of (wrapper length - matched length) over the replacements done     *)
(* before it in the pass, the string is the snapshot with every match      *)
(* handed out so far replaced by <a href="URL">URL</a>, URL the matched    *)
(* text, and a message holding none of www. :// tox: mailto: is returned   *)
(* unchanged.                                                              *)
C2_UrlPassRewrite ==
    InUrl /\ rule >= 1 =>
        /\ InOrder(log \o [i \in 1..Len(iter) |->
                              [match |-> iter[i], accepted |-> FALSE]], snapshot)
        /\ offset = Growth(log)
        /\ \A i \in 1..Len(log) :
              /\ log[i].offset = Growth(SubSeq(log, 1, i - 1))
              /\ log[i].wrapped =
                    Href(Mid(snapshot, log[i].match.capturedStart,
                             log[i].match.capturedLength))
        /\ result = Rebuilt(snapshot, log, 0)
        /\ ((/\ pc = "done"
             /\ ~Contains(message, W_www)
             /\ ~Contains(message, <<":", "/", "/">>)
             /\ ~Contains(message, W_tox)
             /\ ~Contains(message, W_mailto))
               => ret = message)

\* a pass that replaced two matches is over
C2_Witness == InUrl /\ PassOver /\ Len(log) >= 2 /\ log[2].offset > 0

-----------------------------------------------------------------------------
(* C3, as claimed: applyMarkdown("*a <b c*", false) returns its input.     *)
C3_Original ==
    InMd /\ pc = "done" /\ message = Ex_a_b_c /\ ~show => ret = message

(* C3, amended: a match is left untouched exactly when its captured text   *)
(* holds unequal numbers of opening and closing tag-name tokens, as in     *)
(* *a <b> c*, which is returned unchanged; <b c is no token, so            *)
(* applyMarkdown("*a <b c*", false) returns <b>a <b c</b>.                 *)
C3_Amended ==
    InMd =>
        /\ \A i \in 1..Len(log) : log[i].accepted = ~Unbalanced(log[i].captured)
        /\ (pc = "done" /\ message = Ex_a_tag_c => ret = message)
        /\ (pc = "done" /\ message = Ex_a_b_c /\ ~show
               => ret = Tagged(<<"b">>, <<"a", " ", "<", "b", " ", "c">>))

C3_Witness ==
    /\ InMd /\ pc = "done" /\ message = Ex_a_b_c /\ ~show
    /\ ret # message

-----------------------------------------------------------------------------
(* C4: every occurrence of tox: and exactly 76 letters or digits between   *)
(* word boundaries is wrapped as <a href="tox:ID">tox:ID</a>.              *)
C4_ToxIdWrapped ==
    InUrl /\ pc = "done" =>
        \A p \in 0..(Len(message) - Len(W_tox) - ToxIdLen) :
            (/\ WordBoundary(message, p)
             /\ LitAt(message, p, W_tox)
             /\ RunLen(message, p + Len(W_tox), AlNum) = ToxIdLen
             /\ WordBoundary(message, p + Len(W_tox) + ToxIdLen))
            => Contains(ret, Href(Mid(message, p, Len(W_tox) + ToxIdLen)))

-----------------------------------------------------------------------------
(* C5: every anchor a pass of highlightURL inserted is still intact in     *)
(* the returned string: no later pattern matched text of an earlier pass.  *)
C5_AnchorsIntact ==
    InUrl /\ pc = "done" =>
        \A i \in 1..Len(inserted) : Contains(ret, inserted[i])

-----------------------------------------------------------------------------
(* C6: the text put into the wrapper is the whole match when               *)
(* showFormattingSymbols is true and the inner group when it is false,     *)
(* the whole matched span is what is replaced, and *w* becomes <b>w</b>,   *)
(* or <b>*w*</b> with the symbols shown.                                   *)
C6_Captured ==
    InMd /\ rule >= 1 =>
        /\ \A i \in 1..Len(log) :
              LET start == log[i].match.capturedStart
                  len   == log[i].match.capturedLength
                  dl    == Len(RuleDelim(rule))
                  text  == IF show THEN Mid(snapshot, start, len)
                           ELSE Mid(snapshot, start + dl, len - 2 * dl)
              IN /\ Mid(snapshot, start, len)
                      = RuleDelim(rule) \o Mid(snapshot, start + dl, len - 2 * dl)
                          \o RuleDelim(rule)
                 /\ log[i].captured = text
                 /\ log[i].accepted => log[i].wrapped = RuleWrap(rule, text)
        /\ result = Rebuilt(snapshot, log, 0)
        /\ \A w \in {<<"a">>, <<"w">>, <<"b", "o", "l", "d">>, <<"w", "o", "r", "d">>} :
              pc = "done" /\ message = Span(<<"*">>, w) =>
                 ret = Tagged(<<"b">>, IF show THEN message ELSE w)

C6_Witness ==
    /\ InMd /\ pc = "done" /\ message = Ex_bold /\ show
    /\ ret = Tagged(<<"b">>, Ex_bold)

-----------------------------------------------------------------------------
(* C7: isTagIntersection is true exactly when the tag-name tokens that     *)
(* start with / and those that do not differ in number; names and nesting  *)
(* are ignored, so </b><i> is not an intersection.                         *)
C7_TagBalance ==
    InTag /\ pc = "done" =>
        /\ ret = Unbalanced(message)
        /\ (message = TagClose(<<"b">>) \o TagOpen(<<"i">>) => ret = FALSE)

C7_Witness ==
    /\ InTag /\ pc = "done"
    /\ message = TagClose(<<"b">>) \o TagOpen(<<"i">>)
    /\ ret = FALSE

-----------------------------------------------------------------------------
(* C8: a match of a single- or double-delimiter rule opens at the start    *)
(* of the string or right after whitespace, with no whitespace after the   *)
(* opening delimiter, and closes with no whitespace before the closing     *)
(* delimiter, at the end of the string or right before whitespace; a       *)
(* message in which no delimiter character stands at the start or after    *)
(* whitespace, or none at the end or before whitespace, such as a*bold*b,  *)
(* is returned unchanged.                                                  *)
NoOpener(s) ==
    \A p \in 0..(Len(s) - 1) :
        At(s, p) \in DelimChars => p > 0 /\ ~isSpace(At(s, p - 1))
NoCloser(s) ==
    \A p \in 0..(Len(s) - 1) :
        At(s, p) \in DelimChars => p < Len(s) - 1 /\ ~isSpace(At(s, p + 1))

C8_Boundary ==
    InMd =>
        /\ rule \in 1..9 =>
              \A i \in 1..Len(log) :
                 LET start == log[i].match.capturedStart
                     end   == start + log[i].match.capturedLength
                     dl    == Len(RuleDelim(rule))
                 IN /\ start = 0 \/ isSpace(At(snapshot, start - 1))
                    /\ LitAt(snapshot, start, RuleDelim(rule))
                    /\ ~isSpace(At(snapshot, start + dl))
                    /\ ~isSpace(At(snapshot, end - dl - 1))
                    /\ LitAt(snapshot, end - dl, RuleDelim(rule))
                    /\ end = Len(snapshot) \/ isSpace(At(snapshot, end))
        /\ (pc = "done" /\ (NoOpener(message) \/ NoCloser(message)) => ret = message)
        /\ (pc = "done" /\ message = Ex_inside => ret = message)

C8_Witness ==
    /\ InMd /\ pc = "done" /\ message = Ex_inside
    /\ ret = Ex_inside /\ inserted = <<>>

-----------------------------------------------------------------------------
(* C9: the rules run one after the other in table order; *w* is rewritten  *)
(* by the 2nd rule (single asterisk) and the 6th (double asterisk) then    *)
(* finds nothing, while **w** is matched by none of the rules 1 to 5 and   *)
(* is rewritten by the 6th alone, giving <b>w</b> without the symbols.     *)
PlainWords == {<<"a">>, <<"w", "o", "r", "d">>, <<"b", "o", "l", "d">>}
NoMatchInPass == iter = <<>> /\ log = <<>>
OneMatchInPass(k) ==
    /\ Len(log) + Len(iter) = 1
    /\ \A i \in 1..Len(log) :
          /\ log[i].accepted
          /\ log[i].match.capturedStart = 0
          /\ log[i].match.capturedLength = Len(snapshot)
          /\ log[i].wrapped = RuleWrap(k, log[i].captured)

C9_OrderState ==
    InMd =>
        \A w \in PlainWords :
            /\ message = Span(<<"*">>, w) =>
                  /\ rule = 2 => OneMatchInPass(2)
                  /\ rule \in 1..10 \ {2} => NoMatchInPass
                  /\ rule >= 2 /\ iter = <<>> =>
                        result = Tagged(<<"b">>, IF show THEN message ELSE w)
            /\ message = Span(<<"*", "*">>, w) =>
                  /\ rule = 6 => OneMatchInPass(6)
                  /\ rule \in 1..10 \ {6} => NoMatchInPass
                  /\ rule < 6 => result = message
                  /\ pc = "done" /\ ~show => ret = Tagged(<<"b">>, w)

C9_Order ==
    /\ []C9_OrderState
    /\ [][InMd => (rule' = rule \/ (rule' = rule + 1 /\ iter = <<>>))]_vars

C9_Witness ==
    /\ InMd /\ message = Ex_word /\ ~show /\ rule = 6
    /\ result = Tagged(<<"b">>, <<"w", "o", "r", "d">>)
    /\ NoMatchInPass

-----------------------------------------------------------------------------
(* C10: in a message without < and >, a candidate whose captured text      *)
(* holds only whole wrappers of earlier rules is accepted exactly when     *)
(* none of them is the code wrapper: <b>, <i>, <u>, <s> pair up, the code  *)
(* wrapper is one opening and two closing tokens.                          *)
WrapTags ==
    {<<TagOpen(<<n>>), TagClose(<<n>>)>> : n \in {"b", "i", "u", "s"}}
    \cup {<<TagOpen(CodeName), TagClose(CodeName)>>,
          <<FontOpen, TagClose(<<"f", "o", "n", "t">>)>>}
WholeWrappers(s) ==
    \A t \in WrapTags :
        /\ \A q \in 0..Len(s) :
              Cardinality(EndsIn(s, t[1], q)) >= Cardinality(EndsIn(s, t[2], q))
        /\ Cardinality(EndsIn(s, t[1], Len(s))) = Cardinality(EndsIn(s, t[2], Len(s)))
HoldsCode(s) == Contains(s, TagOpen(CodeName))
NoAngle(s) == \A i \in 1..Len(s) : s[i] \notin {"<", ">"}

C10_EnclosedWrappers ==
    InMd /\ NoAngle(message) =>
        /\ \A i \in 1..Len(log) :
              WholeWrappers(log[i].captured) =>
                 (log[i].accepted <=> ~HoldsCode(log[i].captured))
        /\ rule >= 1 =>
              \A i \in 1..Len(log) :
                 log[i].accepted =>
                    /\ Cardinality(OpeningTokens(log[i].wrapped))
                          = Cardinality(OpeningTokens(log[i].captured)) + 1
                    /\ Cardinality(ClosingTokens(log[i].wrapped))
                          = Cardinality(ClosingTokens(log[i].captured))
                            + (IF rule \in {5, 10} THEN 2 ELSE 1)

\* a later rule's span around an inline code span has been rejected
C10_Witness ==
    /\ InMd /\ NoAngle(message) /\ rule >= 6
    /\ \E i \in 1..Len(log) :
          /\ WholeWrappers(log[i].captured)
          /\ HoldsCode(log[i].captured)
          /\ ~log[i].accepted

-----------------------------------------------------------------------------
(* The three functions together *)

Init == InitMd \/ InitUrl \/ InitTag

Next == NextMd \/ NextUrl \/ NextTag

Spec == Init /\ [][Next]_vars

====
